---------------------------- MODULE Spec2Model ----------------------------
(***************************************************************************)
(* Model of src/main.js: the page script that drives a WebGL2 radial       *)
(* spectrum visualiser (init, the mic-access button, the frame loop) and   *)
(* of the fragment shader that follows it in the same file (exp01,         *)
(* sampleSpectrum, the angle-to-bin mapping of main).                      *)
(*                                                                         *)
(* JavaScript runs each callback to completion.  render is split into its  *)
(* five steps (renderPc) so that their order is visible; every other       *)
(* callback is one action and is enabled only while no callback runs.      *)
(***************************************************************************)
EXTENDS Integers, Sequences, FiniteSets

\* ------------------------------------------------------------------ bounds
MaxClicks == 2      \* clicks on the mic-access button that are modelled
FftSize   == 4      \* analyzer.fftSize, scaled down from 2048

\* ----------------------------------------------------------------- helpers
Range(s) == {s[i] : i \in 1..Len(s)}
Min(a, b) == IF a <= b THEN a ELSE b
Max(a, b) == IF a >= b THEN a ELSE b

\* Amplitudes a Uint8Array cell takes in the driver model.
DriverAmps == {0, 255}
\* CSS sizes of the canvas (clientWidth, clientHeight) the environment picks.
CssSizes == {<<800, 600>>, <<600, 800>>, <<0, 600>>}
\* window.devicePixelRatio in halves: 1.0 and 3.0
DprHalves == {2, 6}
\* canvas.width, canvas.height of a canvas element without attributes
DefaultCanvas == <<300, 150>>

Attempts == 1..MaxClicks
\* analyzer.frequencyBinCount
frequencyBinCount == FftSize \div 2
\* new Uint8Array(n): n zero bytes
Uint8Array(n) == [i \in 1..n |-> 0]
Snapshots(n) == [1..n -> DriverAmps]

VARIABLES
    initPc,           \* init(): "fetchVs", "fetchFs", "done", "failed"
    program,          \* "none" | "linked"
    buttonPresent,    \* okButton is in the document
    initReported,     \* init's rejection reached console.error
    attempts,         \* per click: the handler's progress and what it acquired
    analyzer,         \* global: id of the attempt that made it, 0 = undefined
    bins,             \* global: 0 = undefined
    spectrum,         \* global Uint8Array, <<>> = undefined
    spectrumTexture,  \* global texture handle, 0 = undefined
    texData,          \* GPU: contents of each texture handle, <<>> = none
    uniforms,         \* GPU: values of uSpectrum, uBins, uAspect of program
    css,              \* canvas.clientWidth, canvas.clientHeight
    dpr,              \* window.devicePixelRatio, in halves
    canvas,           \* canvas.width, canvas.height
    viewport,         \* GL viewport size
    roPending,        \* ResizeObserver has a notification to deliver
    rafPending,       \* render callbacks registered for the next display frame
    frameQueue,       \* callbacks of the current display frame still to run
    rendersThisFrame, \* render invocations in the current display frame
    renderPc,         \* 0 = no render running, else index into RenderOrder
    frameTrace,       \* steps the current/last render invocation has done
    frameSnapshot,    \* what getByteFrequencyData wrote in this invocation
    frameCanvas,      \* canvas size after this invocation's resizeCanvas
    drawn,            \* what the last drawArrays consumed
    shBins, texA, texB, shOp   \* shader evaluation (ShaderSpec)

driverVars == <<initPc, program, buttonPresent, initReported, attempts,
                analyzer, bins, spectrum, spectrumTexture, texData, uniforms,
                css, dpr, canvas, viewport, roPending, rafPending, frameQueue,
                rendersThisFrame, renderPc, frameTrace, frameSnapshot,
                frameCanvas, drawn>>
shaderVars == <<shBins, texA, texB, shOp>>
vars == <<driverVars, shaderVars>>

NoAttempt == [st |-> "unused", ctx |-> FALSE, stream |-> FALSE,
              analyzer |-> FALSE, texture |-> FALSE, uniformsSet |-> FALSE,
              reported |-> FALSE, scheduled |-> FALSE]
NoDraw == [valid |-> FALSE, tex |-> <<>>, aspect |-> <<0, 0>>,
           viewport |-> <<0, 0>>]
NoShade == [op |-> "none"]

\* No JavaScript is running and no display frame is being served.
JsIdle == renderPc = 0 /\ frameQueue = 0

\* The state once the top-level script has run: context and VAO made,
\* the ResizeObserver observing, init() suspended in its first fetch.
DriverInit ==
    /\ initPc = "fetchVs"
    /\ program = "none"
    /\ buttonPresent = FALSE
    /\ initReported = FALSE
    /\ attempts = [i \in Attempts |-> NoAttempt]
    /\ analyzer = 0 /\ bins = 0 /\ spectrum = <<>> /\ spectrumTexture = 0
    /\ texData = [i \in Attempts |-> <<>>]
    /\ uniforms = [uSpectrum |-> 0, uBins |-> 0, uAspect |-> <<0, 0>>]
    /\ css \in CssSizes
    /\ dpr \in DprHalves
    /\ canvas = DefaultCanvas
    /\ viewport = DefaultCanvas
    /\ roPending = TRUE
    /\ rafPending = 0 /\ frameQueue = 0 /\ rendersThisFrame = 0
    /\ renderPc = 0
    /\ frameTrace = <<>> /\ frameSnapshot = <<>> /\ frameCanvas = <<>>
    /\ drawn = NoDraw

ShaderIdle ==
    /\ shBins = 0 /\ texA = <<>> /\ texB = <<>> /\ shOp = NoShade

Init == DriverInit /\ ShaderIdle

\* ------------------------------------------------------------ resizeCanvas
\* Math.min(window.devicePixelRatio || 1, 2), in halves
PixelRatio(d) == Min(IF d = 0 THEN 2 ELSE d, 4)
\* Math.floor(client * devicePixelRatio)
Scaled(client, d) == (client * PixelRatio(d)) \div 2
TargetSize == <<Scaled(css[1], dpr), Scaled(css[2], dpr)>>

resizeCanvas ==
    IF canvas # TargetSize
    THEN canvas' = TargetSize /\ viewport' = TargetSize
    ELSE UNCHANGED <<canvas, viewport>>

\* The user resizes the window: the canvas gets another CSS size.
SurfaceChange(sz) ==
    /\ JsIdle
    /\ sz # css
    /\ css' = sz /\ dpr' = dpr
    /\ roPending' = TRUE
    /\ UNCHANGED <<initPc, program, buttonPresent, initReported, attempts,
                   analyzer, bins, spectrum, spectrumTexture, texData,
                   uniforms, canvas, viewport, rafPending, frameQueue,
                   rendersThisFrame, renderPc, frameTrace, frameSnapshot,
                   frameCanvas, drawn, shaderVars>>

\* The ResizeObserver delivers its notification: resizeCanvas runs.
ResizeObserved ==
    /\ JsIdle
    /\ roPending
    /\ roPending' = FALSE
    /\ resizeCanvas
    /\ UNCHANGED <<initPc, program, buttonPresent, initReported, attempts,
                   analyzer, bins, spectrum, spectrumTexture, texData,
                   uniforms, css, dpr, rafPending, frameQueue,
                   rendersThisFrame, renderPc, frameTrace, frameSnapshot,
                   frameCanvas, drawn, shaderVars>>

\* -------------------------------------------------------------------- init
\* All driver variables init() and the button handler leave alone.
FrameVarsUnchanged ==
    UNCHANGED <<css, dpr, canvas, viewport, roPending, frameQueue,
                rendersThisFrame, renderPc, frameTrace, frameSnapshot,
                frameCanvas, drawn, shaderVars>>

\* init() up to the end of its first await: fetch('./shaders/vs.glsl').
InitFetchVs(ok) ==
    /\ JsIdle
    /\ initPc = "fetchVs"
    /\ initPc' = IF ok THEN "fetchFs" ELSE "failed"
    /\ initReported' = ~ok
    /\ FrameVarsUnchanged
    /\ UNCHANGED <<program, buttonPresent, attempts, analyzer, bins, spectrum,
                   spectrumTexture, texData, uniforms, rafPending>>

\* What stops init() after both sources are fetched: a failed fetch, a
\* compileShader that throws, a linkProgram that throws, or nothing.
InitOutcomes == {"ok", "fetch", "compileVs", "compileFs", "link"}

\* compileShader (twice) and linkProgram: the program exists only when
\* neither compile nor the link threw.
linkProgram(outcome) == IF outcome = "ok" THEN "linked" ELSE "none"

\* The button is created and gets its click listener only on the path on
\* which nothing threw.
ButtonInstalled(outcome) == outcome = "ok"

\* init() from its second fetch to its end; a throw rejects the promise,
\* which .catch(console.error) reports.
InitFetchFs(outcome) ==
    /\ JsIdle
    /\ initPc = "fetchFs"
    /\ initPc' = IF outcome = "ok" THEN "done" ELSE "failed"
    /\ program' = linkProgram(outcome)
    /\ buttonPresent' = ButtonInstalled(outcome)
    /\ initReported' = (outcome # "ok")
    /\ FrameVarsUnchanged
    /\ UNCHANGED <<attempts, analyzer, bins, spectrum, spectrumTexture,
                   texData, uniforms, rafPending>>

\* ------------------------------------------------------ the button handler
NextAttempt == CHOOSE i \in Attempts :
                   /\ attempts[i].st = "unused"
                   /\ \A j \in Attempts : j < i => attempts[j].st # "unused"

\* A click: the handler enters initAudioAnalyzer, which creates its
\* AudioContext and suspends in await getUserMedia.  The button can be
\* clicked once it is painted, and the browser delivers pending
\* ResizeObserver notifications before it paints.
Click ==
    /\ JsIdle
    /\ buttonPresent
    /\ ~roPending
    /\ \E i \in Attempts : attempts[i].st = "unused"
    /\ attempts' = [attempts EXCEPT ![NextAttempt] =
                        [@ EXCEPT !.st = "pending", !.ctx = TRUE]]
    /\ FrameVarsUnchanged
    /\ UNCHANGED <<initPc, program, buttonPresent, initReported, analyzer,
                   bins, spectrum, spectrumTexture, texData, uniforms,
                   rafPending>>

\* How the suspended handler goes on: getUserMedia grants and nothing
\* throws; getUserMedia rejects; createMediaStreamSource throws on the
\* granted stream.
HandlerOutcomes == {"ok", "denied", "source"}

\* requestAnimationFrame(render) calls the handler makes: the call is the
\* last statement of the try block.
\* (the same call placed after the try/catch would run on every outcome)
RafCalls_Always(outcome) == 1
RafCalls(outcome) == IF outcome = "ok" THEN 1 ELSE 0

\* createSpectrumTexture: a fresh 1 x bins R8 texture; texImage2D with null
\* data gives zeroed texels.
createSpectrumTexture(n) == [k \in 1..n |-> 0]

\* The handler after its await, to its end (try or catch).
HandlerResume(i, outcome) ==
    /\ JsIdle
    /\ attempts[i].st = "pending"
    /\ attempts' = [attempts EXCEPT ![i] =
          [st          |-> IF outcome = "ok" THEN "ok" ELSE "failed",
           ctx         |-> TRUE,
           stream      |-> outcome # "denied",
           analyzer    |-> outcome = "ok",
           texture     |-> outcome = "ok",
           uniformsSet |-> outcome = "ok",
           reported    |-> outcome # "ok",
           scheduled   |-> RafCalls(outcome) > 0]]
    /\ IF outcome = "ok"
       THEN /\ analyzer' = i
            /\ bins' = frequencyBinCount
            /\ spectrum' = Uint8Array(frequencyBinCount)
            /\ spectrumTexture' = i
            /\ texData' = [texData EXCEPT ![i] =
                               createSpectrumTexture(frequencyBinCount)]
            /\ uniforms' = [uSpectrum |-> 0, uBins |-> frequencyBinCount,
                            uAspect |-> canvas]
            /\ buttonPresent' = FALSE
       ELSE UNCHANGED <<analyzer, bins, spectrum, spectrumTexture, texData,
                        uniforms, buttonPresent>>
    /\ rafPending' = rafPending + RafCalls(outcome)
    /\ FrameVarsUnchanged
    /\ UNCHANGED <<initPc, program, initReported>>

\* ---------------------------------------------------------- the frame loop
\* The browser starts a display frame: it will run the callbacks registered
\* so far; callbacks registered while it runs them wait for the next frame.
BeginFrame ==
    /\ JsIdle
    /\ rafPending > 0
    /\ frameQueue' = rafPending
    /\ rafPending' = 0
    /\ rendersThisFrame' = 0
    /\ UNCHANGED <<initPc, program, buttonPresent, initReported, attempts,
                   analyzer, bins, spectrum, spectrumTexture, texData,
                   uniforms, css, dpr, canvas, viewport, roPending, renderPc,
                   frameTrace, frameSnapshot, frameCanvas, drawn, shaderVars>>

\* The statements of render, in source order; before it, the same body with
\* drawArrays ahead of the upload, and with the final
\* requestAnimationFrame left out.
RenderOrder_DrawBeforeUpdate ==
    <<"resize", "refresh", "draw", "update", "schedule">>
RenderOrder_NoReschedule == <<"resize", "refresh", "update", "draw">>
RenderOrder == <<"resize", "refresh", "update", "draw", "schedule">>

\* The browser invokes one registered callback: render is entered.
RunCallback ==
    /\ renderPc = 0
    /\ frameQueue > 0
    /\ frameQueue' = frameQueue - 1
    /\ rendersThisFrame' = rendersThisFrame + 1
    /\ renderPc' = 1
    /\ frameTrace' = <<>> /\ frameSnapshot' = <<>> /\ frameCanvas' = <<>>
    /\ UNCHANGED <<initPc, program, buttonPresent, initReported, attempts,
                   analyzer, bins, spectrum, spectrumTexture, texData,
                   uniforms, css, dpr, canvas, viewport, roPending,
                   rafPending, drawn, shaderVars>>

NextOp == IF renderPc = 0 THEN "none" ELSE RenderOrder[renderPc]

\* render moves past the statement it just ran.
Advance(op) ==
    /\ renderPc' = IF renderPc = Len(RenderOrder) THEN 0 ELSE renderPc + 1
    /\ frameTrace' = Append(frameTrace, op)

InitVarsUnchanged ==
    UNCHANGED <<initPc, program, buttonPresent, initReported, attempts,
                analyzer, bins, spectrumTexture, uniforms, css, dpr,
                roPending, frameQueue, rendersThisFrame, shaderVars>>

\* render: resizeCanvas()
RenderResize ==
    /\ NextOp = "resize"
    /\ resizeCanvas
    /\ frameCanvas' = canvas'
    /\ Advance("resize")
    /\ InitVarsUnchanged
    /\ UNCHANGED <<spectrum, texData, rafPending, frameSnapshot, drawn>>

\* render: analyzer.getByteFrequencyData(spectrum) overwrites the array
\* with the analyser's current estimate, any byte values.
RenderRefresh ==
    /\ NextOp = "refresh"
    /\ \E s \in Snapshots(Len(spectrum)) :
          spectrum' = s /\ frameSnapshot' = s
    /\ Advance("refresh")
    /\ InitVarsUnchanged
    /\ UNCHANGED <<canvas, viewport, texData, rafPending, frameCanvas, drawn>>

\* texSubImage2D(TEXTURE_2D, 0, 0, 0, bins, 1, RED, UNSIGNED_BYTE, spectrum)
\* on a texture holding old: texels 0 .. bins-1 are replaced.
texSubImage2D(old, n, data) ==
    [k \in 1..Len(old) |-> IF k <= n THEN data[k] ELSE old[k]]

\* render: bind spectrumTexture to unit 0 and upload spectrum into it.
RenderUpdate ==
    /\ NextOp = "update"
    /\ texData' = [texData EXCEPT ![spectrumTexture] =
                       texSubImage2D(@, bins, spectrum)]
    /\ Advance("update")
    /\ InitVarsUnchanged
    /\ UNCHANGED <<canvas, viewport, spectrum, rafPending, frameSnapshot,
                   frameCanvas, drawn>>

\* render: clear, useProgram, drawArrays(TRIANGLE_STRIP, 0, 4).  The draw
\* reads the texture on unit 0, the uniforms and the viewport.
RenderDraw ==
    /\ NextOp = "draw"
    /\ drawn' = [valid |-> TRUE, tex |-> texData[spectrumTexture],
                 aspect |-> uniforms.uAspect, viewport |-> viewport]
    /\ Advance("draw")
    /\ InitVarsUnchanged
    /\ UNCHANGED <<canvas, viewport, spectrum, texData, rafPending,
                   frameSnapshot, frameCanvas>>

\* render: requestAnimationFrame(render)
RenderSchedule ==
    /\ NextOp = "schedule"
    /\ rafPending' = rafPending + 1
    /\ Advance("schedule")
    /\ InitVarsUnchanged
    /\ UNCHANGED <<canvas, viewport, spectrum, texData, frameSnapshot,
                   frameCanvas, drawn>>

Next ==
    \/ \E sz \in CssSizes : SurfaceChange(sz)
    \/ ResizeObserved
    \/ \E ok \in BOOLEAN : InitFetchVs(ok)
    \/ \E o \in InitOutcomes : InitFetchFs(o)
    \/ Click
    \/ \E i \in Attempts, o \in HandlerOutcomes : HandlerResume(i, o)
    \/ BeginFrame
    \/ RunCallback
    \/ RenderResize
    \/ RenderRefresh
    \/ RenderUpdate
    \/ RenderDraw
    \/ RenderSchedule

Spec == Init /\ [][Next]_vars

\* -------------------------------------------------------------- the shader
(***************************************************************************)
(* The shader computes in floats.  The model computes the same expressions *)
(* exactly, in integers that count fixed fractions:                        *)
(*   a bin coordinate          counts 1 / BinUnit                          *)
(*   a texture coordinate u    counts 1 / (2 * BinUnit * uBins)            *)
(*   a texel position          counts 1 / PosUnit(uBins)                   *)
(*   a texture fetch           counts 1 / (255 * PosUnit(uBins))           *)
(*   smoothSample              counts 1 / (4 * 255 * PosUnit(uBins))       *)
(*   sampleSpectrum's result   counts 1 / (5100 * PosUnit(uBins))          *)
(***************************************************************************)
MaxBins    == 4     \* largest uBins the shader is evaluated with
AngleSteps == 4     \* angle01 is taken on the grid 0, 1/AngleSteps, .., 1
\* float k = 3.0 in main
K == 3
\* Bytes a texel takes in the shader model: silent, below the noise gate
\* (2/255 < 0.01), full scale.
ShaderAmps == {0, 2, 255}

\* GLSL exp(xn / xd), whose precision the implementation chooses: its cubic
\* Taylor polynomial 1 + x + x^2/2 + x^3/6, which is 1 at 0 and increases
\* on x >= 0.  Counts 1 / (6 * xd^3).
exp(xn, xd) ==
    6 * xd * xd * xd + 6 * xn * xd * xd + 3 * xn * xn * xd + xn * xn * xn

\* exp(k) - 1.0, the divisor of exp01, for f01 on the angle grid.
BinUnit == exp(K * AngleSteps, AngleSteps) - exp(0, AngleSteps)

\* float exp01(float f01, float k) at f01 = n / AngleSteps:
\* (exp(f01 * k) - 1.0) / (exp(k) - 1.0), counting 1 / BinUnit.
exp01(n, k) == exp(k * n, AngleSteps) - exp(0, AngleSteps)

\* GLSL clamp(x, lo, hi) = min(max(x, lo), hi)
clamp(x, lo, hi) == Min(Max(x, lo), hi)

\* sampleSpectrum's first line: bin = clamp(bin, 1.0, uBins - 1.0)
\* (first: the same clamp with a lower limit of 0.0)
KernelCentre_FromZero(bin, uBins) == clamp(bin, 0, (uBins - 1) * BinUnit)
KernelCentre(bin, uBins) == clamp(bin, 1 * BinUnit, (uBins - 1) * BinUnit)

\* uC, uL, uR: (bin + offset + 0.5) / uBins
\* (first: the same coordinate without the half-texel term)
TexCoord_NoHalf(bin, offset) == 2 * (bin + offset * BinUnit)
TexCoord(bin, offset) == 2 * (bin + offset * BinUnit) + BinUnit

\* texture(uSpectrum, vec2(u, 0.5)).r on a 1 x n R8 texture with LINEAR
\* filtering and CLAMP_TO_EDGE: the two texels around u * n - 0.5, their
\* indices clamped to the edge, weighted by the fractional part.
PosUnit(uBins) == 2 * BinUnit * uBins
TexelPos(u, n, uBins) == u * n - BinUnit * uBins
TexelIndex(i, n) == Min(Max(i, 0), n - 1)
texture(tex, u, uBins) ==
    LET n  == Len(tex)
        p  == TexelPos(u, n, uBins)
        i0 == p \div PosUnit(uBins)
        f  == p % PosUnit(uBins)
    IN  tex[TexelIndex(i0, n) + 1] * (PosUnit(uBins) - f)
          + tex[TexelIndex(i0 + 1, n) + 1] * f

\* The texels (0-based) a fetch at u reads with a non-zero weight: the
\* lower one has weight 1 - f > 0, the upper one weight f.
TexelsRead(tex, u, uBins) ==
    LET n  == Len(tex)
        p  == TexelPos(u, n, uBins)
        i0 == p \div PosUnit(uBins)
        f  == p % PosUnit(uBins)
    IN  {TexelIndex(i0, n)}
          \cup (IF f = 0 THEN {} ELSE {TexelIndex(i0 + 1, n)})

\* smoothSample before the noise gate: (l + 2.0 * c + r) * 0.25
Kernel(tex, uBins, bin) ==
    LET b == KernelCentre(bin, uBins)
        c == texture(tex, TexCoord(b, 0), uBins)
        l == texture(tex, TexCoord(b, -1), uBins)
        r == texture(tex, TexCoord(b, 1), uBins)
    IN  l + 2 * c + r

KernelTexels(tex, uBins, bin) ==
    LET b == KernelCentre(bin, uBins)
    IN  TexelsRead(tex, TexCoord(b, 0), uBins)
          \cup TexelsRead(tex, TexCoord(b, -1), uBins)
          \cup TexelsRead(tex, TexCoord(b, 1), uBins)

\* max(smoothSample - 0.01, 0.0):
\* x / (1020 P) - 1/100 = (5 x - 51 P) / (5100 P)
NoiseGate(x, uBins) == Max(5 * x - 51 * PosUnit(uBins), 0)

\* float sampleSpectrum(float bin)
sampleSpectrum(tex, uBins, bin) == NoiseGate(Kernel(tex, uBins, bin), uBins)

\* main: bin = exp01(angle01, k) * (uBins - 1.0)
AngleToBin(n, uBins) == exp01(n, K) * (uBins - 1)

\* Textures of n texels, and those that differ from tex in texel 0 at most.
Textures(n) == [1..n -> ShaderAmps]
SameButBin0(tex) ==
    {t \in Textures(Len(tex)) : \A k \in 2..Len(tex) : t[k] = tex[k]}

\* A linked program with a spectrum texture of shBins texels bound, about
\* to shade; the driver is left where the script's top level leaves it.
ShaderInit ==
    /\ DriverInit /\ css = <<800, 600>> /\ dpr = 2
    /\ shBins \in 2..MaxBins
    /\ texA \in Textures(shBins)
    /\ texB \in SameButBin0(texA)
    /\ shOp = NoShade

\* main() for a pixel at angle01 = n / AngleSteps, over texA and over texB.
Fragment(n) ==
    LET raw    == AngleToBin(n, shBins)
        centre == KernelCentre(raw, shBins)
        first  == shOp.op # "fragment"
    IN  /\ shOp' = [op |-> "fragment", angle |-> n, raw |-> raw,
                    centre |-> centre,
                    ampA |-> sampleSpectrum(texA, shBins, raw),
                    ampB |-> sampleSpectrum(texB, shBins, raw),
                    prevAngle |-> IF first THEN n ELSE shOp.angle,
                    prevCentre |-> IF first THEN centre ELSE shOp.centre]
        /\ UNCHANGED <<shBins, texA, texB, driverVars>>

\* sampleSpectrum called with the integer bin i, over texA.
Direct(i) ==
    /\ shOp' = [op |-> "direct", bin |-> i,
                texels |-> KernelTexels(texA, shBins, i * BinUnit),
                smooth |-> Kernel(texA, shBins, i * BinUnit),
                out |-> sampleSpectrum(texA, shBins, i * BinUnit)]
    /\ UNCHANGED <<shBins, texA, texB, driverVars>>

ShaderNext ==
    \/ \E n \in 0..AngleSteps : Fragment(n)
    \/ \E i \in 0..MaxBins : i <= shBins /\ Direct(i)

ShaderSpec == ShaderInit /\ [][ShaderNext]_vars

\* ------------------------------------------------------ claims, the driver
\* The order the frame's steps are specified in.
FrameSteps == <<"resize", "refresh", "update", "draw", "schedule">>
IsPrefix(s, t) == Len(s) <= Len(t) /\ \A k \in 1..Len(s) : s[k] = t[k]
FrameDone == renderPc = 0 /\ frameTrace # <<>>
FrameDrew == "draw" \in Range(frameTrace)
LoopStarted == rafPending + frameQueue > 0 \/ renderPc # 0 \/ drawn.valid
Degenerate(sz) == sz[1] = 0 \/ sz[2] = 0

\* C1: every render invocation runs resize, refresh, update, draw,
\* schedule in that order, and the texture its draw reads holds, in every
\* bin, the snapshot getByteFrequencyData produced in that same invocation.
C1_DrawSeesFrameSnapshot ==
    /\ IsPrefix(frameTrace, FrameSteps)
    /\ FrameDrew => /\ drawn.valid
                    /\ Len(frameSnapshot) = bins
                    /\ drawn.tex = frameSnapshot

\* A draw whose snapshot differs from the zeroed texture and array, in a
\* session where a second analyzer and texture replaced the first.
C1_Witness ==
    /\ FrameDrew
    /\ \E k \in 1..bins : drawn.tex[k] = 255
    /\ \E k \in 1..bins : drawn.tex[k] = 0
    /\ spectrumTexture = 2

\* C2: at most one render callback is pending in requestAnimationFrame and
\* render runs at most once per display frame.
C2_SingleFrameLoop == rafPending <= 1 /\ rendersThisFrame <= 1

\* C3: the analyzer is created at most once and the spectrum texture is
\* allocated at most once, exactly once when the frame loop has started
\* (a second allocation is what would change the handle render uses).
C3_CreatedOnce ==
    /\ Cardinality({i \in Attempts : attempts[i].analyzer}) <= 1
    /\ Cardinality({i \in Attempts : attempts[i].texture}) <= 1
    /\ LoopStarted => Cardinality({i \in Attempts : attempts[i].texture}) = 1

\* C4: render is scheduled only by an attempt whose every step succeeded,
\* on a linked program; a failed attempt and a failed init() are reported
\* and schedule nothing; after a failed init() the loop never starts.
C4_NoLoopAfterFailedInit ==
    /\ \A i \in Attempts :
          attempts[i].scheduled =>
              /\ attempts[i].st = "ok"
              /\ attempts[i].stream /\ attempts[i].texture
              /\ attempts[i].uniformsSet
              /\ program = "linked"
    /\ \A i \in Attempts :
          attempts[i].st = "failed" =>
              attempts[i].reported /\ ~attempts[i].scheduled
    /\ LoopStarted => /\ program = "linked"
                      /\ \E i \in Attempts : attempts[i].st = "ok"
    /\ initPc = "failed" =>
          /\ initReported /\ ~buttonPresent /\ ~LoopStarted
          /\ \A i \in Attempts : attempts[i].st = "unused"

\* Every attempt has failed (a denial and a throw after the grant), all
\* reported, and no frame is scheduled or was ever drawn.
C4_Witness ==
    /\ \E i \in Attempts : attempts[i].st = "failed" /\ ~attempts[i].stream
    /\ \E i \in Attempts : attempts[i].st = "failed" /\ attempts[i].stream
    /\ \A i \in Attempts : attempts[i].st = "failed" /\ attempts[i].reported
    /\ ~LoopStarted

\* C5: a failed attempt holds none of the resources it acquired: no running
\* AudioContext, no live capture stream, no analyzer, no texture.
C5_FailedAttemptHoldsNothing ==
    \A i \in Attempts :
        attempts[i].st = "failed" =>
            /\ ~attempts[i].ctx /\ ~attempts[i].stream
            /\ ~attempts[i].analyzer /\ ~attempts[i].texture

\* C6 as claimed: a finished render invocation on a canvas of zero width
\* or height issued no draw, and scheduled the next frame.
C6_SkipsDrawWhenDegenerate ==
    (FrameDone /\ Degenerate(frameCanvas)) =>
        /\ ~FrameDrew
        /\ frameTrace[Len(frameTrace)] = "schedule"

\* C6 amended: a render invocation on a canvas of zero width or height runs
\* the same steps as any other: it issues the draw, and it ends having
\* registered the next frame.
C6_DrawsAndReschedulesWhenDegenerate ==
    (frameCanvas # <<>> /\ Degenerate(frameCanvas)) =>
        /\ IsPrefix(frameTrace, FrameSteps)
        /\ renderPc = 0 => /\ frameTrace = FrameSteps
                           /\ drawn.valid /\ Degenerate(drawn.viewport)
                           /\ rafPending + frameQueue >= 1

C6_Witness ==
    /\ FrameDone /\ Degenerate(frameCanvas)
    /\ FrameDrew /\ drawn.viewport = frameCanvas
    /\ rafPending >= 1

\* C7: at every draw the aspect uniform equals the canvas's current width
\* and height (the size the draw's viewport was set to).
C7_AspectTracksSurface ==
    FrameDrew => drawn.aspect = drawn.viewport

\* ------------------------------------------------------ claims, the shader
\* s[i-1] + 2 s[i] + s[i+1] over the bytes of texA (texel j is texA[j + 1]).
Sum3(i) == texA[i] + 2 * texA[i + 1] + texA[i + 2]
DirectInRange ==
    shOp.op = "direct" /\ shOp.bin >= 1 /\ shOp.bin <= shBins - 2

\* C8 as claimed: for an integer bin i in [1, B-2], sampleSpectrum(i) reads
\* exactly texels i-1, i, i+1 and returns exactly their 1:2:1 average
\* (s[i-1] + 2 s[i] + s[i+1]) / 4, bytes normalised by 255.
C8_ReturnsPlainAverage ==
    DirectInRange =>
        /\ shOp.texels = {shOp.bin - 1, shOp.bin, shOp.bin + 1}
        /\ shOp.out = 5 * Sum3(shOp.bin) * PosUnit(shBins)

\* C8 amended: for an integer bin i in [1, B-2], sampleSpectrum(i) reads
\* exactly texels i-1, i, i+1, its smoothSample is exactly their 1:2:1
\* average, and it returns that average less the 0.01 noise gate, floored
\* at zero.
C8_ReturnsGatedAverage ==
    DirectInRange =>
        /\ shOp.texels = {shOp.bin - 1, shOp.bin, shOp.bin + 1}
        /\ shOp.smooth = Sum3(shOp.bin) * PosUnit(shBins)
        /\ shOp.out = IF 100 * Sum3(shOp.bin) <= 4 * 255
                      THEN 0
                      ELSE (5 * Sum3(shOp.bin) - 51) * PosUnit(shBins)

\* Three different neighbours, and a result the gate lowered but left
\* positive.
C8_Witness ==
    /\ DirectInRange
    /\ texA[shOp.bin] = 0 /\ texA[shOp.bin + 1] = 255
    /\ texA[shOp.bin + 2] = 2
    /\ shOp.out > 0
    /\ shOp.out < 5 * Sum3(shOp.bin) * PosUnit(shBins)

\* C9: for every B >= 2 and every angle01 in [0, 1] the kernel centre is
\* the remapped angle times (B - 1) clamped to [1, B-1]: 1 at angle01 = 0,
\* B-1 at angle01 = 1, non-decreasing in angle01, never outside [1, B-1].
C9_BinMapping ==
    shOp.op = "fragment" =>
        /\ shBins >= 2
        /\ shOp.centre >= BinUnit
        /\ shOp.centre <= (shBins - 1) * BinUnit
        /\ shOp.angle = 0 => shOp.centre = BinUnit
        /\ shOp.angle = AngleSteps => shOp.centre = (shBins - 1) * BinUnit
        /\ shOp.prevAngle <= shOp.angle => shOp.prevCentre <= shOp.centre
        /\ shOp.angle <= shOp.prevAngle => shOp.centre <= shOp.prevCentre
        /\ shOp.raw >= BinUnit => shOp.centre = shOp.raw
        /\ shOp.raw <= BinUnit => shOp.centre = BinUnit

\* A pixel whose centre lies strictly inside [1, B-1], shaded after a pixel
\* of a smaller angle that the clamp held at 1.
C9_Witness ==
    /\ shOp.op = "fragment"
    /\ shOp.centre > BinUnit
    /\ shOp.centre < (shBins - 1) * BinUnit
    /\ shOp.prevAngle < shOp.angle
    /\ shOp.prevCentre = BinUnit

\* C10: two textures that differ in bin 0 only give every pixel the same
\* amplitude.
C10_Bin0Excluded ==
    shOp.op = "fragment" => shOp.ampA = shOp.ampB

=============================================================================
